---- MODULE Spec2Model ----
(***************************************************************************)
(* A model of libtcc's safe wrapper (src/src/lib.rs): the process-wide     *)
(* Guard backed by the atomic flag AVAILABLE, the Context wrapping one     *)
(* engine handle and borrowing the Guard, the two terminal operations      *)
(* output_file and relocate, and the RelocatedCtx image.                   *)
(*                                                                         *)
(* The native engine (libtcc) is outside the repository: every value it    *)
(* returns is a nondeterministic choice from a small set.  Each action is  *)
(* one call of the wrapper's API, including the drop of a `self` that the  *)
(* call consumes.  Rust's ownership rules are part of the program: an      *)
(* operation on a value is possible only while the value is owned and not  *)
(* moved, and a `&'a mut Guard` held by a Context excludes every other use *)
(* of that Guard.                                                          *)
(***************************************************************************)
EXTENDS Integers, FiniteSets, Sequences, TLC

VARIABLES
    AVAILABLE,   \* static AVAILABLE: AtomicBool                (lib.rs:34)
    guardOwner,  \* guard id -> thread owning the live Guard, or NoThread
    guardHist,   \* the latest operation on the Guard type
    nextHandle,  \* the next fresh pointer tcc_new will hand out
    eng,         \* handle -> the engine's view of the TCCState
    ctx,         \* handle -> the Context created around that handle
    img,         \* handle -> the RelocatedCtx created around that handle
    closures,    \* handle -> the live boxed closures made for its Context
    last         \* the latest API call and what it returned

vars ==
    <<AVAILABLE, guardOwner, guardHist, nextHandle, eng, ctx, img, closures, last>>

----------------------------------------------------------------------------
(* Bounds of the model *)

NumThreads == 2
MaxGuards == 2
MaxHandles == 2
MaxSize == 1

Threads == 1..NumThreads
GuardIds == 1..MaxGuards
Handles == 1..MaxHandles

NoThread == 0
NULL == 0

\* c_int values tcc_relocate(s, NULL) may return: a positive size, zero, or
\* -1 or another negative number.
SizeVals == 1..MaxSize
NegVals == {-1, -2}
\* c_int status values of an engine call.
RetVals == {-1, 0, 1}

\* enum OutputType
TCC_OUTPUT_MEMORY == 1
TCC_OUTPUT_EXE == 2
TCC_OUTPUT_DLL == 3
TCC_OUTPUT_OBJ == 4
TCC_OUTPUT_PREPROCESS == 5
OutputType == {TCC_OUTPUT_MEMORY, TCC_OUTPUT_EXE, TCC_OUTPUT_DLL,
               TCC_OUTPUT_OBJ, TCC_OUTPUT_PREPROCESS}
\* The kinds the callers of the model pass to set_output_type.
OutputKinds == {TCC_OUTPUT_MEMORY, TCC_OUTPUT_EXE}

\* Addresses of the boxed closures of one Context.  set_call_back boxes the
\* new closure while the Context still owns the old one, so two addresses
\* tell every closure of a Context from the one it replaces.
ClosureAddrs == {1, 2}
\* err_func: None, and the opaque pointer of a handle with no callback.
None == 0

----------------------------------------------------------------------------
(* Records *)

\* A Context: its state, its fields inner, _g and err_func, the terminal
\* call made on it and how many were made; and what the engine was told
\* through it: the output type set_output_type last had accepted (memory by
\* default), whether a compile call was made, and whether the preprocessor
\* symbol SYM is defined.
NoCtx == [st |-> "none", inner |-> NULL, g |-> 0, err_func |-> None,
          output |-> TCC_OUTPUT_MEMORY, compiled |-> FALSE, defined |-> FALSE,
          term |-> "none", nterm |-> 0]
NoImg == [st |-> "none", inner |-> NULL, len |-> 0, cap |-> 0]
\* The engine's state behind a handle: whether it is allocated, how often
\* it was deleted, and the opaque pointer registered with the error
\* function.
NoEng == [st |-> "unalloc", deletes |-> 0, opaque |-> None]

\* The latest call: its name, thread, handle and result, and the raw value
\* the engine returned to it (ret2: a c_int status, or the address for
\* get_symbol); for relocate the size the query returned (len), whether
\* Vec::with_capacity returned a Vec (alloc) and of what capacity (cap),
\* whether the second tcc_relocate call was made (second) and what it
\* returned (ret2); for set_call_back the closure the Context owned before
\* (old), the closure the call boxed (boxed) and whether the engine held a
\* registration of a freed closure at some point of the call (dangling);
\* for a compile call the closure the trampoline invoked (invoked); for the
\* drop of a RelocatedCtx whether its buffer was freed while its handle was
\* live (early); for Guard::new and the drop of a Guard the operation on
\* the Guard type that came before it (prev); for compile_string whether
\* the source was the one gated on SYM (gated); for define_symbol and
\* undefine_symbol whether SYM was defined before the call (was).
Last(op, t, h, ret) ==
    [op |-> op, t |-> t, h |-> h, ret |-> ret,
     len |-> 0, alloc |-> FALSE, cap |-> 0, second |-> FALSE, ret2 |-> 0,
     old |-> None, boxed |-> None, dangling |-> FALSE, invoked |-> None,
     early |-> FALSE, prev |-> "none", gated |-> FALSE, was |-> FALSE]

\* The record of a call that returns `res` for the engine's value `ret`.
Status(op, t, h, ret, res) == [Last(op, t, h, res) EXCEPT !.ret2 = ret]

Init ==
    /\ AVAILABLE = TRUE
    /\ guardOwner = [g \in GuardIds |-> NoThread]
    /\ guardHist = "none"
    /\ nextHandle = 1
    /\ eng = [h \in Handles |-> NoEng]
    /\ ctx = [h \in Handles |-> NoCtx]
    /\ img = [h \in Handles |-> NoImg]
    /\ closures = [h \in Handles |-> {}]
    /\ last = Last("init", NoThread, NULL, "none")

----------------------------------------------------------------------------
(* Derived state *)

LiveGuards == {g \in GuardIds : guardOwner[g] # NoThread}
OpenCtxs == {h \in Handles : ctx[h].st = "open"}
LiveImgs == {h \in Handles : img[h].st = "live"}

\* Mutant: the Context keeps no reference to the Guard.
BorrowedNever(g) == FALSE

\* Mutant: the borrow of the Guard outlives the Context.
BorrowedForever(g) == \E h \in Handles : ctx[h].st # "none" /\ ctx[h].g = g

\* The Context's field `_g: &'a mut Guard`: while the Context is alive the
\* Guard is exclusively borrowed.
Borrowed(g) == \E h \in Handles : ctx[h].st = "open" /\ ctx[h].g = g

\* The record of a call on the Guard type.
GuardCall(op, t, ret) == [Last(op, t, NULL, ret) EXCEPT !.prev = guardHist]

\* Mutant: only a negative status is an error.
map_c_ret_negative(code) == IF code < 0 THEN "Err" ELSE "Ok"

\* fn map_c_ret(code)
map_c_ret(code) == IF code = 0 THEN "Ok" ELSE "Err"

\* The least guard id not naming a live Guard: the identity of a new Guard.
FreshGuard == CHOOSE g \in GuardIds \ LiveGuards :
                  \A g2 \in GuardIds \ LiveGuards : g <= g2

----------------------------------------------------------------------------
(* The Guard *)

\* Guard::new on thread t, given the value `old` the read of AVAILABLE
\* produced and the value `flagAfter` the flag holds afterwards: Ok(Guard([]))
\* when old is true, Err otherwise.
GuardNewStep(t, old, flagAfter) ==
    /\ AVAILABLE' = flagAfter
    /\ IF old
         THEN /\ GuardIds \ LiveGuards # {}
              /\ guardOwner' = [guardOwner EXCEPT ![FreshGuard] = t]
              /\ guardHist' = "new_ok"
              /\ last' = GuardCall("Guard::new", t, "Ok")
         ELSE /\ guardOwner' = guardOwner
              /\ guardHist' = "new_err"
              /\ last' = GuardCall("Guard::new", t, "Err")
    /\ UNCHANGED <<nextHandle, eng, ctx, img, closures>>

\* Mutants of Guard::new.
\* AVAILABLE.load(..) in place of AVAILABLE.swap(false, ..).
GuardNewLoadOnly(t) == GuardNewStep(t, AVAILABLE, AVAILABLE)
\* The failure path stores true (as dropping a Guard built before the test
\* would).
GuardNewRestoresOnConflict(t) == GuardNewStep(t, AVAILABLE, ~AVAILABLE)
\* The result of the swap is not tested: Ok(Guard([])) on every call.
GuardNewUnchecked(t) == GuardNewStep(t, TRUE, FALSE)
\* A lock that waits for the flag instead of returning Err.
GuardNewBlocking(t) == AVAILABLE /\ GuardNewStep(t, AVAILABLE, FALSE)

\* Guard::new: AVAILABLE.swap(false, SeqCst) is one atomic step that returns
\* the old value and leaves false.
GuardNew(t) == GuardNewStep(t, AVAILABLE, FALSE)

\* Mutant of Drop for Guard: the store is missing.
GuardDropNoStore(g) ==
    /\ guardOwner[g] # NoThread
    /\ ~Borrowed(g)
    /\ guardOwner' = [guardOwner EXCEPT ![g] = NoThread]
    /\ guardHist' = "drop"
    /\ last' = GuardCall("Guard::drop", guardOwner[g], "none")
    /\ UNCHANGED <<AVAILABLE, nextHandle, eng, ctx, img, closures>>

\* Drop for Guard: AVAILABLE.store(true, SeqCst).  The Guard must be owned
\* and not borrowed by a live Context.
GuardDrop(g) ==
    /\ guardOwner[g] # NoThread
    /\ ~Borrowed(g)
    /\ AVAILABLE' = TRUE
    /\ guardOwner' = [guardOwner EXCEPT ![g] = NoThread]
    /\ guardHist' = "drop"
    /\ last' = GuardCall("Guard::drop", guardOwner[g], "none")
    /\ UNCHANGED <<nextHandle, eng, ctx, img, closures>>

----------------------------------------------------------------------------
(* The engine handle *)

\* tcc_delete(h) as the engine sees it.
TccDelete(e, h) ==
    [e EXCEPT ![h] = [NoEng EXCEPT !.st = "deleted",
                                   !.deletes = e[h].deletes + 1]]

\* tcc_set_error_func(h, opaque, call_back): the engine keeps the pointer.
TccSetErrorFunc(e, h, opaque) == [e EXCEPT ![h].opaque = opaque]

\* The calls of the engine that may report a diagnostic, given the status
\* they return: a failed compile of a string or a file reports at least
\* one, any other compile or library call may report some (warnings) or
\* none.
Diagnostics(op, ret) ==
    IF op \in {"compile_string", "add_file"} /\ ret # 0 THEN {TRUE} ELSE BOOLEAN

\* tcc_define_symbol(h, SYM, val) and tcc_undefine_symbol(h, SYM) on the
\* symbol table behind the Context c.
TccDefineSymbol(c) == [c EXCEPT !.defined = TRUE]
TccUndefineSymbol(c) == [c EXCEPT !.defined = FALSE]

\* The statuses tcc_compile_string may return for the source
\*   #ifdef SYM / typedef __unknown_type a1; / #endif
\* which is invalid exactly when SYM is defined.
GatedStatus(defined) == IF defined THEN {-1} ELSE {0}

\* extern "C" fn call_back(opaque, msg): the closure at the address the
\* engine was given is invoked.
call_back(opaque) == opaque

\* The closure a call of the engine on h invokes when it reports (or does
\* not report) a diagnostic: none when no error function is registered.
Invoked(e, h, diag) ==
    IF diag /\ e[h].opaque # None THEN call_back(e[h].opaque) ELSE None

\* Mutant: the Context has no Drop, the handle leaks.
ContextDropNoDelete(e, inner) == e

\* Drop for Context: tcc_delete(self.inner) unless self.inner is null.
ContextDrop(e, inner) == IF inner # NULL THEN TccDelete(e, inner) ELSE e

\* Mutant: the RelocatedCtx has no Drop, the handle leaks.
RelocatedCtxDropNoDelete(e, inner) == e

\* Drop for RelocatedCtx: tcc_delete(self.inner), unconditionally.
RelocatedCtxDrop(e, inner) == TccDelete(e, inner)

\* After Drop::drop of the Context around h its fields are dropped: the
\* boxed closure in err_func, if any, is freed.
ErrFuncDrop(cl, h) == [cl EXCEPT ![h] = @ \ {ctx[h].err_func}]

\* A Context that was moved into a call or went out of scope: nothing of
\* it is left but the record of how it ended.
Consumed(c) ==
    [c EXCEPT !.st = "gone", !.err_func = None,
              !.output = TCC_OUTPUT_MEMORY, !.compiled = FALSE,
              !.defined = FALSE]

----------------------------------------------------------------------------
(* The Context *)

\* Mutant: the test of tcc_new's result is missing.
InnerIsNullNever(inner) == FALSE

\* `inner.is_null()` in Context::new
InnerIsNull(inner) == inner = NULL

\* Context::new(g: &'a mut Guard), given whether g is already borrowed.
\* tcc_new() returns null (out of memory) or a fresh handle.
ContextNewStep(g, borrowed) ==
    /\ guardOwner[g] # NoThread
    /\ ~borrowed
    /\ nextHandle <= MaxHandles
    /\ \E inner \in {NULL, nextHandle} :
         IF InnerIsNull(inner)
           THEN /\ last' = Last("Context::new", guardOwner[g], inner, "Err")
                /\ UNCHANGED <<nextHandle, eng, ctx>>
           ELSE /\ nextHandle' = nextHandle + 1
                /\ eng' = [eng EXCEPT ![inner] = [NoEng EXCEPT !.st = "live"]]
                /\ ctx' = [ctx EXCEPT ![inner] =
                             [st |-> "open", inner |-> inner, g |-> g,
                              err_func |-> None,
                              output |-> TCC_OUTPUT_MEMORY,
                              compiled |-> FALSE, defined |-> FALSE,
                              term |-> "none", nterm |-> 0]]
                /\ last' = Last("Context::new", guardOwner[g], inner, "Ok")
    /\ UNCHANGED <<AVAILABLE, guardOwner, guardHist, img, closures>>

\* Mutant: the Guard is taken by shared reference, so nothing excludes a
\* second Context.
ContextNewSharedBorrow(g) == ContextNewStep(g, FALSE)

ContextNew(g) == ContextNewStep(g, Borrowed(g))

\* Context::set_options(&mut self, ..): a passthrough that returns nothing.
SetOptions(h) ==
    /\ ctx[h].st = "open"
    /\ last' = Last("set_options", guardOwner[ctx[h].g], h, "none")
    /\ UNCHANGED <<AVAILABLE, guardOwner, guardHist, nextHandle, eng, ctx, img,
                   closures>>

\* Box::new(Box::new(f)): an address that no live closure of the Context
\* has.
FreshClosure(live) ==
    CHOOSE c \in ClosureAddrs \ live : \A d \in ClosureAddrs \ live : c <= d

\* One statement of set_call_back on m, the error function state of one
\* Context: the pointer the engine holds (opaque), the field err_func, the
\* live boxed closures (live) and the closure the call boxed (boxed).
\*   "box"       let mut user_err_func = Box::new(Box::new(f));
\*   "register"  tcc_set_error_func(self.inner, user_err_func.as_mut(), ..)
\*   "store"     self.err_func = Some(user_err_func);  the old value of the
\*               field is dropped, which frees the closure it owned.
\* `dangling` becomes true when, after a statement, the engine holds the
\* address of a closure that is not live.
CallBackStep(m, step) ==
    LET n == CASE step = "box" ->
                    [m EXCEPT !.boxed = FreshClosure(m.live),
                              !.live = @ \cup {FreshClosure(m.live)}]
               [] step = "register" ->
                    [m EXCEPT !.opaque = m.boxed]
               [] step = "store" ->
                    [m EXCEPT !.err_func = m.boxed,
                              !.live = @ \ {m.err_func}]
    IN [n EXCEPT !.dangling = @ \/ (n.opaque # None /\ n.opaque \notin n.live)]

RECURSIVE CallBackRun(_, _)
CallBackRun(m, steps) ==
    IF steps = <<>> THEN m
    ELSE CallBackRun(CallBackStep(m, Head(steps)), Tail(steps))

\* Context::set_call_back(&mut self, f), given its statements in order.
SetCallBackStep(h, steps) ==
    /\ ctx[h].st = "open"
    /\ closures[h] # ClosureAddrs
    /\ LET inner == ctx[h].inner
           m0 == [opaque |-> eng[inner].opaque, err_func |-> ctx[h].err_func,
                  live |-> closures[h], boxed |-> None, dangling |-> FALSE]
           m == CallBackRun(m0, steps)
       IN /\ eng' = TccSetErrorFunc(eng, inner, m.opaque)
          /\ ctx' = [ctx EXCEPT ![h].err_func = m.err_func]
          /\ closures' = [closures EXCEPT ![h] = m.live]
          /\ last' = [Last("set_call_back", guardOwner[ctx[h].g], h, "none")
                        EXCEPT !.old = m0.err_func, !.boxed = m.boxed,
                               !.dangling = m.dangling]
    /\ UNCHANGED <<AVAILABLE, guardOwner, guardHist, nextHandle, img>>

\* Mutant: the field is assigned, and the old closure freed, before the
\* engine is given the new pointer.
SetCallBackStoreFirst(h) == SetCallBackStep(h, <<"box", "store", "register">>)

\* Mutant: the closure is stored but never registered with the engine.
SetCallBackNoRegister(h) == SetCallBackStep(h, <<"box", "store">>)

\* Context::set_call_back(&mut self, f)
SetCallBack(h) == SetCallBackStep(h, <<"box", "register", "store">>)

\* A method `fn(&mut self, ..) -> Result<(), ()>` that returns map_c_ret of
\* the status of one engine call, given whether the method keeps the
\* Context with its caller (`&mut self`) or takes it (`self`), the statuses
\* the engine may return for the input, and whether the input is the
\* source gated on SYM.
StatusCallOf(h, op, byRef, rets, gated) ==
    /\ ctx[h].st = "open"
    /\ \E ret \in rets :
         /\ \E diag \in Diagnostics(op, ret) :
              last' = [Status(op, guardOwner[ctx[h].g], h, ret, map_c_ret(ret))
                         EXCEPT !.invoked = Invoked(eng, ctx[h].inner, diag),
                                !.gated = gated]
         /\ LET c == IF op \in {"compile_string", "add_file"}
                       THEN [ctx[h] EXCEPT !.compiled = TRUE] ELSE ctx[h]
            IN IF byRef
                 THEN /\ ctx' = [ctx EXCEPT ![h] = c]
                      /\ UNCHANGED <<eng, closures>>
                 ELSE /\ eng' = ContextDrop(eng, ctx[h].inner)
                      /\ ctx' = [ctx EXCEPT ![h] = Consumed(c)]
                      /\ closures' = ErrFuncDrop(closures, h)
    /\ UNCHANGED <<AVAILABLE, guardOwner, guardHist, nextHandle, img>>

\* The same for an input on which the engine may return any status.
StatusCall(h, op, byRef) == StatusCallOf(h, op, byRef, RetVals, FALSE)

\* Mutant: add_library(self, ..) takes the Context, which is dropped when
\* the call returns.
AddLibraryByValue(h) == StatusCall(h, "add_library", FALSE)

\* Context::add_file(&mut self, ..)
AddFile(h) == StatusCall(h, "add_file", TRUE)

\* Context::compile_string(&mut self, ..)
CompileString(h) == StatusCall(h, "compile_string", TRUE)

\* Context::compile_string(&mut self, p) for p the source gated on SYM.
CompileStringGated(h) ==
    StatusCallOf(h, "compile_string", TRUE, GatedStatus(ctx[h].defined), TRUE)

\* A method that passes SYM to the engine and returns nothing of it, given
\* the Context as the engine call leaves it.
SymbolCall(h, op, c) ==
    /\ ctx[h].st = "open"
    /\ ctx' = [ctx EXCEPT ![h] = c]
    /\ last' = [Last(op, guardOwner[ctx[h].g], h, "none")
                  EXCEPT !.was = ctx[h].defined]
    /\ UNCHANGED <<AVAILABLE, guardOwner, guardHist, nextHandle, eng, img,
                   closures>>

\* Context::define_symbol(&mut self, sym, val): tcc_define_symbol
DefineSymbol(h) == SymbolCall(h, "define_symbol", TccDefineSymbol(ctx[h]))

\* Mutant: undefine_symbol makes no engine call.
UndefineSymbolNoCall(h) == SymbolCall(h, "undefine_symbol", ctx[h])

\* Context::undefine_symbol(&mut self, sym): tcc_undefine_symbol
UndefineSymbol(h) == SymbolCall(h, "undefine_symbol", TccUndefineSymbol(ctx[h]))

\* Context::add_library(&mut self, ..)
AddLibrary(h) == StatusCall(h, "add_library", TRUE)

\* Mutant: the status is dropped without a test.
AssertEqZeroMissing(ret) == "none"

\* The result of a method that ends in assert_eq!(ret, 0): a panic when
\* the status is not 0, a return to the caller otherwise.
AssertEqZero(ret) == IF ret = 0 THEN "none" ELSE "Panic"

\* A method `fn(&mut self, ..)` that makes one engine call and asserts that
\* its status is 0.
AssertCall(h, op) ==
    /\ ctx[h].st = "open"
    /\ \E ret \in RetVals :
         last' = Status(op, guardOwner[ctx[h].g], h, ret, AssertEqZero(ret))
    /\ UNCHANGED <<AVAILABLE, guardOwner, guardHist, nextHandle, eng, ctx, img,
                   closures>>

\* Context::add_include_path(&mut self, path)
AddIncludePath(h) == AssertCall(h, "add_include_path")

\* Context::add_sys_include_path(&mut self, path)
AddSysIncludePath(h) == AssertCall(h, "add_sys_include_path")

\* Context::add_library_path(&mut self, path)
AddLibraryPath(h) == AssertCall(h, "add_library_path")

\* Context::add_symbol(&mut self, sym, val)
AddSymbol(h) == AssertCall(h, "add_symbol")

\* Context::set_output_type(&mut self, output): the kind is passed to
\* tcc_set_output_type, and assert_eq!(ret, 0) panics on a non-zero status;
\* nothing tests whether compilation has begun.
SetOutputType(h) ==
    /\ ctx[h].st = "open"
    /\ \E kind \in OutputKinds, ret \in RetVals :
         /\ ctx' = IF ret = 0 THEN [ctx EXCEPT ![h].output = kind] ELSE ctx
         /\ last' = Status("set_output_type", guardOwner[ctx[h].g], h, ret,
                           AssertEqZero(ret))
    /\ UNCHANGED <<AVAILABLE, guardOwner, guardHist, nextHandle, eng, img,
                   closures>>

\* A Context goes out of scope without a terminal operation.
DropContext(h) ==
    /\ ctx[h].st = "open"
    /\ eng' = ContextDrop(eng, ctx[h].inner)
    /\ ctx' = [ctx EXCEPT ![h] = Consumed(@)]
    /\ closures' = ErrFuncDrop(closures, h)
    /\ last' = Last("Context::drop", guardOwner[ctx[h].g], h, "none")
    /\ UNCHANGED <<AVAILABLE, guardOwner, guardHist, nextHandle, img>>

\* Mutant: output_file(&mut self, ..) leaves the Context with its caller.
OutputFileByRef(h) ==
    /\ ctx[h].st = "open"
    /\ \E ret \in RetVals :
         last' = Status("output_file", guardOwner[ctx[h].g], h, ret,
                        map_c_ret(ret))
    /\ ctx' = [ctx EXCEPT ![h].term = "output_file", ![h].nterm = @ + 1]
    /\ UNCHANGED <<AVAILABLE, guardOwner, guardHist, nextHandle, eng, img,
                   closures>>

\* Context::output_file(self, ..): map_c_ret of the engine's status; `self`
\* is dropped when the call returns.
OutputFile(h) ==
    /\ ctx[h].st = "open"
    /\ \E ret \in RetVals :
         last' = Status("output_file", guardOwner[ctx[h].g], h, ret,
                        map_c_ret(ret))
    /\ eng' = ContextDrop(eng, ctx[h].inner)
    /\ ctx' = [ctx EXCEPT ![h] = [Consumed(@) EXCEPT !.term = "output_file",
                                                     !.nterm = @ + 1]]
    /\ closures' = ErrFuncDrop(closures, h)
    /\ UNCHANGED <<AVAILABLE, guardOwner, guardHist, nextHandle, img>>

\* `len as usize` for a negative c_int is at least 2^32 - 2^31, more than
\* isize::MAX bytes on a 32-bit target and likewise on a 64-bit one, so
\* Vec::<u8>::with_capacity(len as usize) panics with a capacity overflow
\* before it allocates.
CapacityOverflow(len) == len < 0

\* The Context after relocate returned: consumed, with `inner` as relocate
\* left it.
Relocated(c, inner) ==
    [Consumed(c) EXCEPT !.inner = inner, !.term = "relocate", !.nterm = @ + 1]

\* Context::relocate(mut self), given the value `innerAfter` that the
\* success path assigns to self.inner before `self` is dropped.  The size
\* query returns a positive size, zero or a negative value.  On every path
\* `self` is dropped: Drop::drop, then its fields.
RelocateStep(h, innerAfter) ==
    /\ ctx[h].st = "open"
    /\ LET inner == ctx[h].inner
           t == guardOwner[ctx[h].g]
           call == Last("relocate", t, h, "Err")
           Query(len) ==
             IF len = -1
               THEN \* return Err(()) after the size query
                    /\ eng' = ContextDrop(eng, inner)
                    /\ ctx' = [ctx EXCEPT ![h] = Relocated(@, inner)]
                    /\ img' = img
                    /\ last' = [call EXCEPT !.len = len]
               ELSE IF CapacityOverflow(len)
                 THEN \* Vec::with_capacity panics; unwinding drops self
                      /\ eng' = ContextDrop(eng, inner)
                      /\ ctx' = [ctx EXCEPT ![h] = Relocated(@, inner)]
                      /\ img' = img
                      /\ last' = [call EXCEPT !.len = len, !.ret = "Panic"]
                 ELSE \E ret \in RetVals :
                        IF ret # 0
                          THEN \* return Err(()) after the second call
                               /\ eng' = ContextDrop(eng, inner)
                               /\ ctx' = [ctx EXCEPT ![h] = Relocated(@, inner)]
                               /\ img' = img
                               /\ last' = [call EXCEPT !.len = len,
                                             !.alloc = TRUE, !.cap = len,
                                             !.second = TRUE, !.ret2 = ret]
                          ELSE \* bin.set_len(len); the handle moves
                               /\ eng' = ContextDrop(eng, innerAfter)
                               /\ ctx' = [ctx EXCEPT ![h] =
                                            Relocated(@, innerAfter)]
                               /\ img' = [img EXCEPT ![h] =
                                            [st |-> "live", inner |-> inner,
                                             len |-> len, cap |-> len]]
                               /\ last' = [call EXCEPT !.len = len,
                                             !.alloc = TRUE, !.cap = len,
                                             !.second = TRUE, !.ret2 = ret,
                                             !.ret = "Ok"]
       IN \/ \E len \in SizeVals : Query(len)
          \/ Query(0)
          \/ \E len \in NegVals : Query(len)
    /\ closures' = ErrFuncDrop(closures, h)
    /\ UNCHANGED <<AVAILABLE, guardOwner, guardHist, nextHandle>>

\* Mutant: `self.inner = null_mut()` is missing, so the drop of `self`
\* deletes the handle the image was given.
RelocateKeepsInner(h) == RelocateStep(h, ctx[h].inner)

\* Context::relocate(mut self): self.inner = null_mut() on success.
Relocate(h) == RelocateStep(h, NULL)

----------------------------------------------------------------------------
(* The RelocatedCtx *)

\* A RelocatedCtx that went out of scope: after Drop::drop its buffer _bin
\* is freed.
Freed(i) == [i EXCEPT !.st = "gone", !.len = 0, !.cap = 0]

\* RelocatedCtx::get_symbol(&mut self, ..): None when the engine returns
\* null, Some(addr) otherwise.
GetSymbolStep(h, byRef) ==
    /\ img[h].st = "live"
    /\ \E addr \in {NULL, 1} :
         last' = Status("get_symbol", NoThread, h, addr,
                        IF addr = NULL THEN "None" ELSE "Some")
    /\ IF byRef
         THEN UNCHANGED <<eng, img>>
         ELSE /\ eng' = RelocatedCtxDrop(eng, img[h].inner)
              /\ img' = [img EXCEPT ![h] = Freed(@)]
    /\ UNCHANGED <<AVAILABLE, guardOwner, guardHist, nextHandle, ctx, closures>>

\* Mutant: get_symbol(self, ..) takes the image, which is dropped when the
\* call returns.
GetSymbolByValue(h) == GetSymbolStep(h, FALSE)

\* RelocatedCtx::get_symbol(&mut self, ..)
GetSymbol(h) == GetSymbolStep(h, TRUE)

\* One step of the destruction of a RelocatedCtx, on m: the engine (e), the
\* image (i) and whether the buffer was freed while the handle was live
\* (early).
\*   "drop"    Drop::drop(&mut self): tcc_delete(self.inner)
\*   "fields"  the fields are dropped: the Vec _bin frees its buffer
ImageDropStep(m, step) ==
    CASE step = "drop" ->
           [m EXCEPT !.e = RelocatedCtxDrop(m.e, m.i.inner)]
      [] step = "fields" ->
           [m EXCEPT !.i = Freed(m.i),
                     !.early = @ \/ m.e[m.i.inner].st = "live"]

RECURSIVE ImageDropRun(_, _)
ImageDropRun(m, steps) ==
    IF steps = <<>> THEN m
    ELSE ImageDropRun(ImageDropStep(m, Head(steps)), Tail(steps))

\* A RelocatedCtx goes out of scope, given the steps of its destruction in
\* order.
DropImageStep(h, steps) ==
    /\ img[h].st = "live"
    /\ LET m == ImageDropRun([e |-> eng, i |-> img[h], early |-> FALSE], steps)
       IN /\ eng' = m.e
          /\ img' = [img EXCEPT ![h] = m.i]
          /\ last' = [Last("RelocatedCtx::drop", NoThread, h, "none")
                        EXCEPT !.early = m.early]
    /\ UNCHANGED <<AVAILABLE, guardOwner, guardHist, nextHandle, ctx, closures>>

\* Mutant: the buffer is released before Drop::drop deletes the handle.
DropImageFieldsFirst(h) == DropImageStep(h, <<"fields", "drop">>)

\* A RelocatedCtx goes out of scope: Drop::drop runs, then the fields are
\* dropped.
DropImage(h) == DropImageStep(h, <<"drop", "fields">>)

----------------------------------------------------------------------------

Next ==
    \/ \E t \in Threads : GuardNew(t)
    \/ \E g \in GuardIds : GuardDrop(g)
    \/ \E g \in GuardIds : ContextNew(g)
    \/ \E h \in Handles : SetOptions(h)
    \/ \E h \in Handles : SetCallBack(h)
    \/ \E h \in Handles : SetOutputType(h)
    \/ \E h \in Handles : AddFile(h)
    \/ \E h \in Handles : CompileString(h)
    \/ \E h \in Handles : AddLibrary(h)
    \/ \E h \in Handles : DropContext(h)
    \/ \E h \in Handles : OutputFile(h)
    \/ \E h \in Handles : Relocate(h)
    \/ \E h \in Handles : GetSymbol(h)
    \/ \E h \in Handles : DropImage(h)

Spec == Init /\ [][Next]_vars

----------------------------------------------------------------------------
(* The calls on one open Context *)

\* Spec follows Guards, Contexts and images over several sessions, with the
\* calls on a Context that other state depends on.  SessionSpec follows
\* every `&mut self` method of one Context, with the preprocessor symbol
\* table and the methods that assert the engine's status.

\* The state in which the tests start to configure their Context:
\*   let mut g = Guard::new().unwrap();
\*   let mut ctx = Context::new(&mut g).unwrap();
SessionInit ==
    /\ AVAILABLE = FALSE
    /\ guardOwner = [g \in GuardIds |-> IF g = 1 THEN 1 ELSE NoThread]
    /\ guardHist = "new_ok"
    /\ nextHandle = 2
    /\ eng = [h \in Handles |->
                IF h = 1 THEN [NoEng EXCEPT !.st = "live"] ELSE NoEng]
    /\ ctx = [h \in Handles |->
                IF h = 1 THEN [NoCtx EXCEPT !.st = "open", !.inner = 1, !.g = 1]
                ELSE NoCtx]
    /\ img = [h \in Handles |-> NoImg]
    /\ closures = [h \in Handles |-> {}]
    /\ last = Last("Context::new", 1, 1, "Ok")

SessionNext ==
    \/ \E h \in Handles : SetOptions(h)
    \/ \E h \in Handles : SetCallBack(h)
    \/ \E h \in Handles : AddIncludePath(h)
    \/ \E h \in Handles : AddSysIncludePath(h)
    \/ \E h \in Handles : DefineSymbol(h)
    \/ \E h \in Handles : UndefineSymbol(h)
    \/ \E h \in Handles : SetOutputType(h)
    \/ \E h \in Handles : AddFile(h)
    \/ \E h \in Handles : CompileString(h)
    \/ \E h \in Handles : CompileStringGated(h)
    \/ \E h \in Handles : AddLibraryPath(h)
    \/ \E h \in Handles : AddLibrary(h)
    \/ \E h \in Handles : AddSymbol(h)
    \/ \E h \in Handles : DropContext(h)

SessionSpec == SessionInit /\ [][SessionNext]_vars

----------------------------------------------------------------------------
(* Claims *)

\* C1: under every interleaving of Guard::new and Guard drop by the threads,
\* at most one Guard is live, and two acquire attempts with no release
\* between them never both succeed.
C1_AtMostOneGuard ==
    /\ Cardinality(LiveGuards) <= 1
    /\ ~(last.op = "Guard::new" /\ last.ret = "Ok" /\ last.prev = "new_ok")

\* Two threads tried from the available state: one holds the Guard, the
\* other's attempt failed.
C1_Witness ==
    /\ guardHist = "new_err" /\ last.prev = "new_ok"
    /\ last.op = "Guard::new" /\ last.ret = "Err"
    /\ \E g \in LiveGuards : guardOwner[g] # last.t

\* C2 as stated: at most one session, a live Context or a live
\* RelocatedCtx, exists process-wide.
C2_AtMostOneSession ==
    Cardinality(OpenCtxs) + Cardinality(LiveImgs) <= 1

\* C2 as amended: at most one Context is alive process-wide; a RelocatedCtx
\* holds no borrow of the Guard and may be alive beside it.
C2_AtMostOneContext ==
    Cardinality(OpenCtxs) <= 1

\* A Context is open while a RelocatedCtx of an earlier Context is alive.
C2_Witness ==
    OpenCtxs # {} /\ LiveImgs # {}

\* C3: a Guard::new while a Guard is held returns Err and changes nothing:
\* the flag stays false, the held Guard and every Context, image and handle
\* are as before.
C3_FailedAcquireChangesNothing ==
    [][(last'.op = "Guard::new" /\ LiveGuards # {})
         => /\ last'.ret = "Err"
            /\ AVAILABLE = FALSE /\ AVAILABLE' = FALSE
            /\ UNCHANGED <<guardOwner, nextHandle, eng, ctx, img, closures>>]_vars

\* After a failed acquire, a Context was opened against the Guard that was
\* held throughout.
C3_Witness ==
    /\ guardHist = "new_err"
    /\ LiveGuards # {}
    /\ last.op = "Context::new" /\ last.ret = "Ok"

\* C4: dropping the Guard restores availability, and the acquire attempt
\* that follows a drop succeeds.
C4_ReleaseRestores ==
    /\ guardHist = "drop" => AVAILABLE
    /\ (last.op = "Guard::new" /\ last.prev = "drop") => last.ret = "Ok"

\* A Guard was dropped and the next attempt acquired it again.
C4_Witness ==
    /\ last.op = "Guard::new" /\ last.prev = "drop" /\ last.ret = "Ok"
    /\ ~AVAILABLE

\* C5: Guard::new is enabled for every thread in every state, held or not,
\* and it returns Ok or Err in that one step.
C5_AcquireNeverBlocks ==
    /\ \A t \in Threads : ENABLED GuardNew(t)
    /\ last.op = "Guard::new" => last.ret \in {"Ok", "Err"}

\* An attempt returned Err while the holder keeps a Context open.
C5_Witness ==
    /\ last.op = "Guard::new" /\ last.ret = "Err"
    /\ OpenCtxs # {}

\* C6: at most one Context is open against a Guard, the Guard of an open
\* Context is live, and it cannot be dropped.
C6_OneContextPerGuard ==
    /\ \A g \in GuardIds : Cardinality({h \in OpenCtxs : ctx[h].g = g}) <= 1
    /\ \A h \in OpenCtxs :
         /\ guardOwner[ctx[h].g] # NoThread
         /\ ~ENABLED GuardDrop(ctx[h].g)

\* A second Context is open against the Guard, after the first one ended;
\* the latest operation on the Guard type is the acquire.
C6_Witness ==
    /\ guardHist = "new_ok"
    /\ \E h \in OpenCtxs : h > 1 /\ ctx[h].g = ctx[1].g

\* C7: a Context sees at most one terminal call; once output_file or
\* relocate was called on it, it is gone and no configuration, compile,
\* emit or relocate call on it is possible.
C7_OneTerminal ==
    \A h \in Handles :
      /\ ctx[h].nterm <= 1
      /\ ctx[h].term # "none" =>
           /\ ctx[h].nterm = 1
           /\ ctx[h].st = "gone"
           /\ ~ENABLED SetOptions(h)
           /\ ~ENABLED CompileString(h)
           /\ ~ENABLED OutputFile(h)
           /\ ~ENABLED Relocate(h)

\* A terminal call failed and consumed its Context all the same.
C7_Witness ==
    /\ last.op \in {"output_file", "relocate"} /\ last.ret = "Err"
    /\ ctx[last.h].st = "gone" /\ ctx[last.h].nterm = 1

\* C8: every handle the engine holds live is owned by exactly one of an
\* open Context and a live RelocatedCtx; the Context a live RelocatedCtx
\* came from is gone with a null handle field.
C8_HandleOwnedOnce ==
    \A h \in Handles :
      /\ eng[h].st = "live" =>
           Cardinality({c \in OpenCtxs : ctx[c].inner = h})
             + Cardinality({i \in LiveImgs : img[i].inner = h}) = 1
      /\ img[h].st = "live" =>
           /\ ctx[h].st = "gone" /\ ctx[h].inner = NULL
           /\ eng[img[h].inner].st = "live"

\* relocate succeeded: the image owns the handle the Context had.
C8_Witness ==
    /\ last.op = "relocate" /\ last.ret = "Ok"
    /\ img[last.h].st = "live" /\ img[last.h].inner = last.h

\* C9: a size query that returns a value <= 0 makes relocate return Err
\* with no buffer allocated, no second engine call and no RelocatedCtx.
C9_NonPositiveSizeFails ==
    (last.op = "relocate" /\ last.len <= 0)
      => /\ last.ret = "Err"
         /\ ~last.alloc /\ ~last.second
         /\ img[last.h].st = "none"

\* C10: a non-zero return of the second engine call makes relocate return
\* Err with no RelocatedCtx, and a RelocatedCtx comes only from a relocate
\* whose size query returned a valid size (> 0) and whose second call
\* returned 0.
C10_BothCallsChecked ==
    /\ (last.op = "relocate" /\ last.len > 0 /\ last.second /\ last.ret2 # 0)
         => (last.ret = "Err" /\ img[last.h].st = "none")
    /\ (last.op = "relocate" /\ img[last.h].st # "none")
         => (last.len > 0 /\ last.second /\ last.ret2 = 0)

\* C11: compile_string, add_file and add_library return Err exactly when
\* the engine's status is non-zero and Ok exactly when it is 0.
C11_StatusMapped ==
    last.op \in {"compile_string", "add_file", "add_library"}
      => /\ last.ret = "Err" <=> last.ret2 # 0
         /\ last.ret = "Ok" <=> last.ret2 = 0

\* A positive status came back and the call returned Err.
C11_Witness ==
    /\ last.op \in {"compile_string", "add_file", "add_library"}
    /\ last.ret2 > 0 /\ last.ret = "Err"

\* C12: output_file returns Err exactly when the engine's status is
\* non-zero, and on either result the handle has been deleted exactly once
\* and no Context or image is left around it.
C12_EmitReleasesHandle ==
    last.op = "output_file"
      => /\ last.ret = "Err" <=> last.ret2 # 0
         /\ last.ret \in {"Ok", "Err"}
         /\ eng[last.h].st = "deleted" /\ eng[last.h].deletes = 1
         /\ ctx[last.h].st = "gone" /\ img[last.h].st = "none"

\* output_file failed and the handle is deleted.
C12_Witness ==
    /\ last.op = "output_file" /\ last.ret = "Err"
    /\ eng[last.h].st = "deleted"

\* C16: get_symbol returns None exactly when the engine returns null and
\* Some otherwise, and on either result the image keeps its handle and
\* buffer and nothing else changes.
C16_LookupIsPure ==
    /\ [](last.op = "get_symbol"
            => /\ last.ret = "None" <=> last.ret2 = NULL
               /\ last.ret = "Some" <=> last.ret2 # NULL
               /\ img[last.h].st = "live" /\ eng[img[last.h].inner].st = "live"
               /\ ENABLED GetSymbol(last.h))
    /\ [][last'.op = "get_symbol"
            => UNCHANGED <<AVAILABLE, guardOwner, guardHist, nextHandle,
                           eng, ctx, img, closures>>]_vars

\* A lookup missed and the image is still alive.
C16_Witness ==
    /\ last.op = "get_symbol" /\ last.ret = "None"
    /\ img[last.h].st = "live"

\* C17: after a failed compile_string, add_file or add_library the Context
\* is still open around its live, undeleted handle, and every
\* configuration, compile and terminal call on it is possible.
C17_FailedCompileKeepsContext ==
    (last.op \in {"compile_string", "add_file", "add_library"}
       /\ last.ret = "Err")
      => /\ ctx[last.h].st = "open" /\ ctx[last.h].inner = last.h
         /\ eng[last.h].st = "live" /\ eng[last.h].deletes = 0
         /\ ENABLED SetOptions(last.h)
         /\ ENABLED AddFile(last.h)
         /\ ENABLED CompileString(last.h)
         /\ ENABLED AddLibrary(last.h)
         /\ ENABLED OutputFile(last.h)
         /\ ENABLED Relocate(last.h)

\* add_library failed and left the Context open.
C17_Witness ==
    /\ last.op = "add_library" /\ last.ret = "Err"
    /\ ctx[last.h].st = "open"

\* C15: Context::new returns Err exactly when tcc_new returns null.  On Err
\* nothing is owned, created or deleted, the Guard is still held and a new
\* Context::new against it can succeed; on Ok the Context is open around
\* exactly the handle tcc_new returned, with no callback.
C15_OpenFailsOnlyOnNull ==
    /\ [](last.op = "Context::new"
            => /\ last.ret \in {"Ok", "Err"}
               /\ last.ret = "Err" <=> last.h = NULL
               /\ last.ret = "Ok"
                    => /\ ctx[last.h].st = "open" /\ ctx[last.h].inner = last.h
                       /\ eng[last.h].st = "live" /\ eng[last.h].deletes = 0
                       /\ ctx[last.h].err_func = None
                       /\ eng[last.h].opaque = None
                       /\ \A h \in Handles \ {last.h} :
                            ~(ctx[h].st = "open" /\ ctx[h].inner = last.h)
               /\ last.ret = "Err"
                    => \E g \in LiveGuards :
                         /\ guardOwner[g] = last.t
                         /\ ENABLED (ContextNew(g) /\ last'.ret = "Ok"))
    /\ [][(last'.op = "Context::new" /\ last'.ret = "Err")
            => UNCHANGED <<AVAILABLE, guardOwner, guardHist, nextHandle,
                           eng, ctx, img, closures>>]_vars

\* tcc_new returned null: Err, and the Guard is still held and unborrowed.
C15_Witness ==
    /\ last.op = "Context::new" /\ last.ret = "Err" /\ last.h = NULL
    /\ \E g \in LiveGuards : guardOwner[g] = last.t /\ ~Borrowed(g)

\* C13: once compile_string or add_file was called on a Context, no call
\* on it changes the output type the engine is configured with.
C13_OutputKindFrozen ==
    [][\A h \in Handles :
         (ctx[h].st = "open" /\ ctx[h].compiled /\ ctx'[h].st = "open")
           => ctx'[h].output = ctx[h].output]_vars

\* C14: a compile_string or add_file that fails on a Context with a callback
\* returns Err and has invoked the closure the Context owns, the one the
\* latest set_call_back installed, which is live; and no compile or library
\* call invokes any other closure.
C14_FailedCompileInvokesCurrent ==
    /\ (last.op \in {"compile_string", "add_file"} /\ last.ret2 # 0
          /\ ctx[last.h].err_func # None)
         => /\ last.ret = "Err"
            /\ last.invoked = ctx[last.h].err_func
            /\ last.invoked \in closures[last.h]
    /\ last.op \in {"compile_string", "add_file", "add_library"}
         => last.invoked \in {None, ctx[last.h].err_func}

\* A compile failed after the callback was replaced: the closure invoked is
\* the one the Context owns, and it is not the first the Context had.
C14_Witness ==
    /\ last.op \in {"compile_string", "add_file"} /\ last.ret = "Err"
    /\ last.invoked # None /\ last.invoked = ctx[last.h].err_func
    /\ last.invoked # FreshClosure({})

\* C18: the second tcc_relocate call of a relocate is made only after the
\* size query returned a valid size (> 0), with a buffer allocated with a
\* capacity of at least that size; and on success the length of the image's
\* buffer is that size, within its capacity.
C18_TwoCallOrdering ==
    (last.op = "relocate" /\ last.second)
      => /\ last.len > 0
         /\ last.alloc /\ last.cap >= last.len
         /\ last.ret = "Ok"
              => /\ img[last.h].len = last.len
                 /\ img[last.h].cap >= img[last.h].len

\* C19: set_call_back leaves the Context owning exactly one live closure,
\* the one the call boxed, which is the one registered with the engine and
\* not the one the Context had; and at no point of the call did the engine
\* hold the address of a freed closure.
C19_ReplaceRegistersBeforeFree ==
    last.op = "set_call_back"
      => /\ ~last.dangling
         /\ last.boxed # None /\ last.boxed # last.old
         /\ ctx[last.h].err_func = last.boxed
         /\ closures[last.h] = {last.boxed}
         /\ eng[ctx[last.h].inner].opaque = last.boxed

\* set_call_back replaced a callback the Context had.
C19_Witness ==
    /\ last.op = "set_call_back" /\ last.old # None
    /\ ctx[last.h].err_func = last.boxed
    /\ last.old \notin closures[last.h]

\* C20: the opaque pointer a live handle is registered with is the address
\* of a live closure, owned by the open Context around that handle.
C20_RegistrationLive ==
    \A h \in Handles :
      (eng[h].st = "live" /\ eng[h].opaque # None)
        => /\ eng[h].opaque \in closures[h]
           /\ ctx[h].st = "open" /\ ctx[h].err_func = eng[h].opaque

\* C21: every handle Context::new created is live exactly while an open
\* Context or a live RelocatedCtx owns it, and is deleted exactly once when
\* its Context, and the RelocatedCtx made from it if any, is gone; no
\* handle is deleted twice, and a handle never handed out is untouched.
C21_HandleDestroyedOnce ==
    \A h \in Handles :
      /\ eng[h].deletes <= 1
      /\ eng[h].st = "live" <=> (ctx[h].st = "open" \/ img[h].st = "live")
      /\ (ctx[h].st = "gone" /\ img[h].st # "live")
           => (eng[h].st = "deleted" /\ eng[h].deletes = 1)
      /\ ctx[h].st = "none" => (eng[h].st = "unalloc" /\ img[h].st = "none")
      /\ ctx[h].st = "open" => ctx[h].inner = h
      /\ img[h].st = "live" => img[h].inner = h

\* relocate succeeded and the image was dropped since: one delete.
C21_Witness ==
    /\ last.op = "RelocatedCtx::drop"
    /\ ctx[last.h].term = "relocate" /\ img[last.h].st = "gone"
    /\ eng[last.h].st = "deleted" /\ eng[last.h].deletes = 1

\* C23: when the Context opened against a Guard was consumed by a terminal
\* call or dropped, the Guard is still held and not borrowed, and as long
\* as the engine has a handle to give, a new Context can be opened against
\* it with no release of the Guard in between.
C23_SequentialReuse ==
    /\ last.op \in {"output_file", "relocate", "Context::drop"}
         => /\ guardOwner[ctx[last.h].g] # NoThread
            /\ \A h \in Handles : ~(ctx[h].st = "open" /\ ctx[h].g = ctx[last.h].g)
    /\ \A g \in LiveGuards :
         ((\A h \in Handles : ~(ctx[h].st = "open" /\ ctx[h].g = g))
            /\ nextHandle <= MaxHandles)
           => ENABLED (ContextNew(g) /\ last'.ret = "Ok")

\* A Context was opened after an earlier one ended in a terminal call; the
\* latest operation on the Guard type is the acquire.
C23_Witness ==
    /\ guardHist = "new_ok"
    /\ last.op = "Context::new" /\ last.ret = "Ok" /\ last.h > 1
    /\ \E h \in Handles : h < last.h /\ ctx[h].term # "none"

\* C26: AVAILABLE is true exactly when no Guard is live and false exactly
\* when one Guard is live; a failed Guard::new leaves exactly the one Guard
\* live that was held, and after a drop of a Guard none is live.
C26_FlagAgreesWithGuards ==
    /\ AVAILABLE <=> LiveGuards = {}
    /\ ~AVAILABLE <=> Cardinality(LiveGuards) = 1
    /\ (last.op = "Guard::new" /\ last.ret = "Err")
         => (Cardinality(LiveGuards) = 1 /\ ~AVAILABLE)
    /\ last.op = "Guard::drop" => (LiveGuards = {} /\ AVAILABLE)

\* After a failed acquire the holder dropped its Guard: the flag is true
\* and no Guard is live.
C26_Witness ==
    /\ last.op = "Guard::drop" /\ last.prev = "new_err"
    /\ AVAILABLE /\ LiveGuards = {}

\* C22: the drop of a RelocatedCtx deletes the handle before the buffer is
\* freed; a buffer is gone only when its handle is deleted, and while a
\* RelocatedCtx is live its buffer is allocated and no call changes it.
C22_HandleBeforeBuffer ==
    /\ [](/\ last.op = "RelocatedCtx::drop"
              => /\ ~last.early
                 /\ img[last.h].st = "gone" /\ eng[last.h].st = "deleted"
          /\ \A h \in Handles :
               /\ img[h].st = "gone" => eng[h].st = "deleted"
               /\ img[h].st = "live" => img[h].cap >= img[h].len)
    /\ [][\A h \in Handles :
            (img[h].st = "live" /\ img'[h].st = "live") => img'[h] = img[h]]_vars

\* An image was dropped, handle first, while another image with a buffer of
\* positive size stays live.
C22_Witness ==
    /\ last.op = "RelocatedCtx::drop" /\ ~last.early
    /\ img[last.h].st = "gone" /\ eng[last.h].deletes = 1
    /\ \E h \in Handles : img[h].st = "live" /\ img[h].len > 0

\* C24: add_include_path, add_sys_include_path, add_library_path,
\* set_output_type and add_symbol panic exactly when the engine's status is
\* not 0; the status never comes back as Ok or Err, and a call that did
\* not panic had status 0.
C24_AssertedCallsAbort ==
    last.op \in {"add_include_path", "add_sys_include_path",
                     "add_library_path", "set_output_type", "add_symbol"}
      => /\ last.ret \in {"none", "Panic"}
         /\ last.ret = "Panic" <=> last.ret2 # 0
         /\ last.ret = "none" <=> last.ret2 = 0

\* add_symbol panicked on a positive status, the Context is still open.
C24_Witness ==
    /\ last.op = "add_symbol" /\ last.ret2 > 0 /\ last.ret = "Panic"
    /\ ctx[last.h].st = "open"

\* C25: after define_symbol SYM is defined and after undefine_symbol it is
\* not, whatever was defined before, as in a Context that never defined
\* it; and the source gated on SYM compiles to the outcome of the symbol
\* table at the time of the call: Err exactly while SYM is defined.
C25_DefineUndefineRoundTrip ==
    /\ last.op = "define_symbol" => ctx[last.h].defined
    /\ last.op = "undefine_symbol" => ctx[last.h].defined = NoCtx.defined
    /\ (last.op = "compile_string" /\ last.gated)
         => /\ last.ret = "Err" <=> ctx[last.h].defined
            /\ last.ret = "Ok" <=> ~ctx[last.h].defined

\* SYM was defined, a compile was made, and undefine_symbol removed it.
C25_Witness ==
    /\ last.op = "undefine_symbol" /\ last.was
    /\ ctx[last.h].compiled /\ ~ctx[last.h].defined

====
